---- MODULE Spec2Model ----
(***************************************************************************)
(* Model of ultravox-backend/predict.py: the Predictor object (setup and   *)
(* predict).  Text is modelled at character level: a text is a sequence of *)
(* one-character strings, so that str.split, str.strip, json.loads and     *)
(* json.dumps are computed the way the Python library computes them.       *)
(*                                                                         *)
(* Alphabet of the modelled texts: printable ASCII plus the whitespace     *)
(* characters \t \n \r \f.  Number literals in the modelled texts are      *)
(* integers (no fraction or exponent part), string escapes are limited to  *)
(* \" \\ \/ \n \r \t \f.                                                    *)
(***************************************************************************)
EXTENDS Integers, Sequences, FiniteSets, TLC

(***************************************************************************)
(* Bounds of the model.                                                    *)
(***************************************************************************)
MaxMarkers == 2       \* assistant markers put in front of the answer
MaxPad == 1           \* whitespace characters around the answer

(***************************************************************************)
(* Characters and strings.                                                 *)
(***************************************************************************)
Chars(s) == [i \in 1..Len(s) |-> SubSeq(s, i, i)]

\* Concatenation of ss[lo..hi], halving the range to keep the evaluation shallow.
RECURSIVE ConcatRange(_, _, _)
ConcatRange(ss, lo, hi) ==
    IF lo > hi THEN <<>>
    ELSE IF lo = hi THEN ss[lo]
    ELSE LET mid == (lo + hi) \div 2
         IN  ConcatRange(ss, lo, mid) \o ConcatRange(ss, mid + 1, hi)

Concat(ss) == ConcatRange(ss, 1, Len(ss))

Slice(s, i, j) == IF j < i THEN <<>> ELSE SubSeq(s, i, IF j > Len(s) THEN Len(s) ELSE j)

StartsWith(s, p) == Len(s) >= Len(p) /\ SubSeq(s, 1, Len(p)) = p

MatchAt(s, i, p) == i >= 1 /\ i + Len(p) - 1 <= Len(s) /\ SubSeq(s, i, i + Len(p) - 1) = p

Contains(s, p) == \E i \in 1..Len(s) : MatchAt(s, i, p)

AssistantMarker == Chars("<|assistant|>")

\* str.find(sep, i): the least index >= i where sep occurs, 0 when none.
FindFrom(s, sep, i) ==
    LET hits == {j \in i..Len(s) : MatchAt(s, j, sep)}
    IN  IF hits = {} THEN 0 ELSE CHOOSE j \in hits : \A k \in hits : j <= k

\* str.split(sep): left-to-right scan over non-overlapping occurrences.
RECURSIVE SplitFrom(_, _, _)
SplitFrom(s, sep, i) ==
    LET j == FindFrom(s, sep, i)
    IN  IF j = 0 THEN <<Slice(s, i, Len(s))>>
        ELSE <<Slice(s, i, j - 1)>> \o SplitFrom(s, sep, j + Len(sep))

Split(s, sep) == SplitFrom(s, sep, 1)

\* Whitespace of str.strip() within the alphabet.
PyWhitespace == {" ", "\t", "\n", "\r", "\f"}

Strip(s) ==
    LET keep == {i \in 1..Len(s) : s[i] \notin PyWhitespace}
    IN  IF keep = {} THEN <<>>
        ELSE LET lo == CHOOSE i \in keep : \A k \in keep : i <= k
                 hi == CHOOSE i \in keep : \A k \in keep : i >= k
             IN  SubSeq(s, lo, hi)

\* Variant: the text after the first marker, response.split(marker, 1)[-1].
AssistantResponseAfterFirst(response) ==
    LET parts == Split(response, AssistantMarker)
    IN  Strip(IF Len(parts) = 1 THEN parts[1]
              ELSE Slice(response, Len(parts[1]) + Len(AssistantMarker) + 1, Len(response)))

\* response.split("<|assistant|>")[-1].strip()
AssistantResponse(response) ==
    LET parts == Split(response, AssistantMarker)
    IN  Strip(parts[Len(parts)])

(***************************************************************************)
(* Python values as they come out of json.loads.                           *)
(***************************************************************************)
PyVal(t, s, n, keys, kids) == [t |-> t, s |-> s, n |-> n, keys |-> keys, kids |-> kids]

PyNone == PyVal("NoneType", <<>>, 0, <<>>, <<>>)
PyBool(b) == PyVal("bool", <<>>, IF b THEN 1 ELSE 0, <<>>, <<>>)
PyInt(n) == PyVal("int", <<>>, n, <<>>, <<>>)
PyFloat(name) == PyVal("float", name, 0, <<>>, <<>>)
PyStr(s) == PyVal("str", s, 0, <<>>, <<>>)
PyList(kids) == PyVal("list", <<>>, 0, <<>>, kids)
PyDict(keys, kids) == PyVal("dict", <<>>, 0, keys, kids)

HasKey(d, k) == \E i \in 1..Len(d.keys) : d.keys[i] = k

\* dict.get(k, default)
DictGet(d, k, default) ==
    IF HasKey(d, k) THEN d.kids[CHOOSE i \in 1..Len(d.keys) : d.keys[i] = k] ELSE default

\* d[k] = v: a repeated key keeps its position and takes the new value.
DictSet(d, k, v) ==
    IF HasKey(d, k)
    THEN PyDict(d.keys, [i \in 1..Len(d.kids) |-> IF d.keys[i] = k THEN v ELSE d.kids[i]])
    ELSE PyDict(Append(d.keys, k), Append(d.kids, v))

(***************************************************************************)
(* json.loads: the scanner of json/decoder.py and json/scanner.py.         *)
(* ext = TRUE is Python's decoder, which also accepts the literals NaN,    *)
(* Infinity and -Infinity; ext = FALSE is the grammar of RFC 8259.         *)
(***************************************************************************)
JsonWhitespace == {" ", "\t", "\n", "\r"}

Digits == {"0", "1", "2", "3", "4", "5", "6", "7", "8", "9"}

DigitVal(c) ==
    CASE c = "0" -> 0 [] c = "1" -> 1 [] c = "2" -> 2 [] c = "3" -> 3 [] c = "4" -> 4
      [] c = "5" -> 5 [] c = "6" -> 6 [] c = "7" -> 7 [] c = "8" -> 8 [] c = "9" -> 9

DigitChar(d) == Chars("0123456789")[d + 1]

Scanned(val, end) == [ok |-> TRUE, val |-> val, end |-> end]

ScanFail == [ok |-> FALSE, val |-> PyNone, end |-> 0]

\* WHITESPACE.match(s, i).end()
SkipWs(s, i) ==
    LET stops == {j \in i..Len(s) : s[j] \notin JsonWhitespace}
    IN  IF stops = {} THEN (IF i > Len(s) + 1 THEN i ELSE Len(s) + 1)
        ELSE CHOOSE j \in stops : \A k \in stops : j <= k

\* Number of consecutive backslashes immediately before position p, not
\* going left of position i.
BackslashRun(s, i, p) ==
    LET others == {q \in i..(p - 1) : s[q] # "\\"}
    IN  IF others = {} THEN p - i
        ELSE p - 1 - (CHOOSE q \in others : \A k \in others : q >= k)

\* The character an escape sequence \e stands for; <<>> when \e is no escape.
Unescape(e) ==
    CASE e \in {"\"", "\\", "/"} -> <<e>>
      [] e = "n" -> <<"\n">>
      [] e = "r" -> <<"\r">>
      [] e = "t" -> <<"\t">>
      [] e = "f" -> <<"\f">>
      [] OTHER -> <<>>

\* py_scanstring: i is the index after the opening quote.  The string ends
\* at the first quote that no backslash escapes; a backslash starts an
\* escape when an even number of backslashes precedes it.
ScanString(s, i, acc) ==
    LET quotes == {p \in i..Len(s) : s[p] = "\"" /\ BackslashRun(s, i, p) % 2 = 0}
    IN  IF quotes = {} THEN ScanFail
        ELSE LET j == CHOOSE p \in quotes : \A k \in quotes : p <= k
                 starts == {p \in i..(j - 1) : s[p] = "\\" /\ BackslashRun(s, i, p) % 2 = 0}
                 bad == \/ \E p \in starts : Unescape(s[p + 1]) = <<>>
                        \/ \E p \in i..(j - 1) : s[p] \in {"\t", "\n", "\r", "\f"}  \* strict=True
                 piece(p) == IF p \in starts THEN Unescape(s[p + 1])
                             ELSE IF (p - 1) \in starts THEN <<>>
                             ELSE <<s[p]>>
             IN  IF bad THEN ScanFail
                 ELSE Scanned(PyStr(acc \o Concat([q \in 1..(j - i) |-> piece(i + q - 1)])), j + 1)

\* End of the run of digits that starts at i (first index that is no digit).
DigitsEnd(s, i) ==
    LET stops == {j \in i..Len(s) : s[j] \notin Digits}
    IN  IF stops = {} THEN Len(s) + 1 ELSE CHOOSE j \in stops : \A k \in stops : j <= k

RECURSIVE DigitsValue(_, _, _, _)
DigitsValue(s, i, j, acc) ==
    IF i >= j THEN acc ELSE DigitsValue(s, i + 1, j, 10 * acc + DigitVal(s[i]))

\* NUMBER_RE = (-?(?:0|[1-9]\d*)), integer part only.
ScanNumber(s, i) ==
    LET neg == s[i] = "-"
        d == IF neg THEN i + 1 ELSE i
    IN  IF d > Len(s) \/ s[d] \notin Digits THEN ScanFail
        ELSE LET e == IF s[d] = "0" THEN d + 1 ELSE DigitsEnd(s, d)
                 n == DigitsValue(s, d, e, 0)
             IN  Scanned(PyInt(IF neg THEN 0 - n ELSE n), e)

RECURSIVE ScanOnce(_, _, _)
RECURSIVE ObjectLoop(_, _, _, _)
RECURSIVE ArrayLoop(_, _, _, _)

\* JSONObject's loop: i is the index after the opening quote of a key.
ObjectLoop(s, i, d, ext) ==
    LET k == ScanString(s, i, <<>>)
    IN  IF ~k.ok THEN ScanFail
        ELSE LET c1 == SkipWs(s, k.end)
             IN  IF c1 > Len(s) \/ s[c1] # ":" THEN ScanFail
                 ELSE LET v == ScanOnce(s, SkipWs(s, c1 + 1), ext)
                      IN  IF ~v.ok THEN ScanFail
                          ELSE LET c2 == SkipWs(s, v.end)
                                   d2 == DictSet(d, k.val.s, v.val)
                               IN  IF c2 > Len(s) THEN ScanFail
                                   ELSE IF s[c2] = "}" THEN Scanned(d2, c2 + 1)
                                   ELSE IF s[c2] # "," THEN ScanFail
                                   ELSE LET c3 == SkipWs(s, c2 + 1)
                                        IN  IF c3 > Len(s) \/ s[c3] # "\"" THEN ScanFail
                                            ELSE ObjectLoop(s, c3 + 1, d2, ext)

\* JSONObject: i is the index after the opening brace.
ScanObject(s, i, ext) ==
    LET c == SkipWs(s, i)
    IN  IF c > Len(s) THEN ScanFail
        ELSE IF s[c] = "}" THEN Scanned(PyDict(<<>>, <<>>), c + 1)
        ELSE IF s[c] # "\"" THEN ScanFail
        ELSE ObjectLoop(s, c + 1, PyDict(<<>>, <<>>), ext)

\* JSONArray's loop: i is the index of the next value.
ArrayLoop(s, i, kids, ext) ==
    LET v == ScanOnce(s, i, ext)
    IN  IF ~v.ok THEN ScanFail
        ELSE LET c == SkipWs(s, v.end)
                 kids2 == Append(kids, v.val)
             IN  IF c > Len(s) THEN ScanFail
                 ELSE IF s[c] = "]" THEN Scanned(PyList(kids2), c + 1)
                 ELSE IF s[c] # "," THEN ScanFail
                 ELSE ArrayLoop(s, SkipWs(s, c + 1), kids2, ext)

\* JSONArray: i is the index after the opening bracket.
ScanArray(s, i, ext) ==
    LET c == SkipWs(s, i)
    IN  IF c > Len(s) THEN ScanFail
        ELSE IF s[c] = "]" THEN Scanned(PyList(<<>>), c + 1)
        ELSE ArrayLoop(s, c, <<>>, ext)

\* scanner.py_make_scanner._scan_once
ScanOnce(s, i, ext) ==
    IF i > Len(s) THEN ScanFail
    ELSE LET c == s[i]
         IN  IF c = "\"" THEN ScanString(s, i + 1, <<>>)
             ELSE IF c = "{" THEN ScanObject(s, i + 1, ext)
             ELSE IF c = "[" THEN ScanArray(s, i + 1, ext)
             ELSE IF c = "n" /\ MatchAt(s, i, Chars("null")) THEN Scanned(PyNone, i + 4)
             ELSE IF c = "t" /\ MatchAt(s, i, Chars("true")) THEN Scanned(PyBool(TRUE), i + 4)
             ELSE IF c = "f" /\ MatchAt(s, i, Chars("false")) THEN Scanned(PyBool(FALSE), i + 5)
             ELSE IF ScanNumber(s, i).ok THEN ScanNumber(s, i)
             ELSE IF ext /\ c = "N" /\ MatchAt(s, i, Chars("NaN"))
                  THEN Scanned(PyFloat(Chars("NaN")), i + 3)
             ELSE IF ext /\ c = "I" /\ MatchAt(s, i, Chars("Infinity"))
                  THEN Scanned(PyFloat(Chars("Infinity")), i + 8)
             ELSE IF ext /\ c = "-" /\ MatchAt(s, i, Chars("-Infinity"))
                  THEN Scanned(PyFloat(Chars("-Infinity")), i + 9)
             ELSE ScanFail

\* JSONDecoder.decode: one value, whitespace around it, nothing else.
Decode(s, ext) ==
    LET r == ScanOnce(s, SkipWs(s, 1), ext)
    IN  IF r.ok /\ SkipWs(s, r.end) = Len(s) + 1 THEN r ELSE ScanFail

\* json.loads(s); ok = FALSE stands for json.JSONDecodeError.
JsonLoads(s) == Decode(s, TRUE)

(***************************************************************************)
(* json.dumps with the default arguments (ensure_ascii, allow_nan,         *)
(* separators ", " and ": ").                                              *)
(***************************************************************************)
RECURSIVE IntChars(_)
IntChars(n) ==
    IF n < 0 THEN <<"-">> \o IntChars(0 - n)
    ELSE IF n < 10 THEN <<DigitChar(n)>>
    ELSE IntChars(n \div 10) \o <<DigitChar(n % 10)>>

\* ESCAPE_ASCII on one character of the alphabet.
EscapeChar(c) ==
    CASE c = "\"" -> <<"\\", "\"">>
      [] c = "\\" -> <<"\\", "\\">>
      [] c = "\n" -> <<"\\", "n">>
      [] c = "\r" -> <<"\\", "r">>
      [] c = "\t" -> <<"\\", "t">>
      [] c = "\f" -> <<"\\", "f">>
      [] OTHER -> <<c>>

EncodeStr(s) == <<"\"">> \o Concat([i \in 1..Len(s) |-> EscapeChar(s[i])]) \o <<"\"">>

RECURSIVE JoinFrom(_, _, _)
JoinFrom(items, sep, i) ==
    IF i > Len(items) THEN <<>>
    ELSE IF i = Len(items) THEN items[i]
    ELSE items[i] \o sep \o JoinFrom(items, sep, i + 1)

RECURSIVE JsonDumps(_)
JsonDumps(v) ==
    CASE v.t = "NoneType" -> Chars("null")
      [] v.t = "bool" -> IF v.n = 1 THEN Chars("true") ELSE Chars("false")
      [] v.t = "int" -> IntChars(v.n)
      [] v.t = "float" -> v.s
      [] v.t = "str" -> EncodeStr(v.s)
      [] v.t = "list" ->
            <<"[">> \o JoinFrom([i \in 1..Len(v.kids) |-> JsonDumps(v.kids[i])], Chars(", "), 1)
                    \o <<"]">>
      [] v.t = "dict" ->
            <<"{">> \o JoinFrom([i \in 1..Len(v.kids) |->
                                    EncodeStr(v.keys[i]) \o Chars(": ") \o JsonDumps(v.kids[i])],
                                Chars(", "), 1)
                    \o <<"}">>

(***************************************************************************)
(* Exceptions and results of the steps of predict.                         *)
(***************************************************************************)
Raised(text, invoked) ==
    [raised |-> TRUE, text |-> text, path |-> "error", invoked |-> invoked]

Returned(text, path, invoked) ==
    [raised |-> FALSE, text |-> text, path |-> path, invoked |-> invoked]

\* str(AttributeError) for a missing attribute.
NoAttribute(type, attr) ==
    Chars("'") \o type \o Chars("' object has no attribute '") \o attr \o Chars("'")

(***************************************************************************)
(* base64.b64decode(audio) with validate=False: binascii.a2b_base64 in     *)
(* non-strict mode.  The decoded bytes are represented by the sequence of  *)
(* data characters they were decoded from.                                 *)
(***************************************************************************)
B64Alphabet ==
    LET a == Chars("ABCDEFGHIJKLMNOPQRSTUVWXYZabcdefghijklmnopqrstuvwxyz0123456789+/")
    IN  {a[i] : i \in 1..Len(a)}

RECURSIVE B64Scan(_, _, _, _, _)
B64Scan(s, i, quad_pos, pads, data) ==
    IF i > Len(s) THEN [quad_pos |-> quad_pos, data |-> data]
    ELSE IF s[i] = "=" THEN
        IF quad_pos >= 2 /\ quad_pos + pads + 1 >= 4
        THEN [quad_pos |-> 0, data |-> data]
        ELSE B64Scan(s, i + 1, quad_pos, IF quad_pos >= 2 THEN pads + 1 ELSE pads, data)
    ELSE IF s[i] \notin B64Alphabet THEN B64Scan(s, i + 1, quad_pos, pads, data)
    ELSE B64Scan(s, i + 1, (quad_pos + 1) % 4, 0, Append(data, s[i]))

B64Decode(audio) ==
    LET r == B64Scan(audio, 1, 0, 0, <<>>)
    IN  IF r.quad_pos = 0 THEN [raised |-> FALSE, text |-> <<>>, data |-> r.data]
        ELSE IF r.quad_pos = 1
        THEN [raised |-> TRUE, data |-> <<>>, text |->
                Chars("Invalid base64-encoded string: number of data characters (")
                \o IntChars(Len(r.data)) \o Chars(") cannot be 1 more than a multiple of 4")]
        ELSE [raised |-> TRUE, data |-> <<>>, text |-> Chars("Incorrect padding")]

(***************************************************************************)
(* librosa.load(io.BytesIO(audio_data), sr=16000): a function of the       *)
(* bytes.  ValidClips are the byte strings that are decodable audio.       *)
(***************************************************************************)
ValidClips == {Chars("UklGRg"), Chars("T2dnUw")}

SamplingRate == 16000

AudioLoad(data) ==
    IF data \in ValidClips
    THEN [raised |-> FALSE, text |-> <<>>, tensor |-> data, sr |-> SamplingRate]
    ELSE [raised |-> TRUE, text |-> Chars("Format not recognised."), tensor |-> <<>>, sr |-> 0]

(***************************************************************************)
(* The conversation and the pipeline call.                                 *)
(***************************************************************************)
SystemPrompt ==
    "You are a helpful shopping assistant. Output JSON: {'message': '...', 'action': 'search'|'collection'|'none', 'query'?..., 'handle'?...}"

Turns(command) ==
    <<[role |-> "system", content |-> SystemPrompt], [role |-> "user", content |-> command]>>

PipelineInput(tensor, sr, command) ==
    [audio |-> tensor, turns |-> Turns(command), sampling_rate |-> sr]

(***************************************************************************)
(* The response payloads.                                                  *)
(***************************************************************************)
ResponseDict(message, action, query, handle) ==
    PyDict(<<Chars("message"), Chars("action"), Chars("query"), Chars("handle")>>,
           <<message, action, query, handle>>)

ErrorPayloadWithAction(text) ==
    JsonDumps(ResponseDict(PyStr(Chars("Error: ") \o text), PyStr(Chars("none")), PyNone, PyNone))

\* json.dumps({'message': f'Error: {e}'})
ErrorPayload(text) ==
    JsonDumps(PyDict(<<Chars("message")>>, <<PyStr(Chars("Error: ") \o text)>>))

(***************************************************************************)
(* Lines 76-93: parse the assistant's answer and build the response.       *)
(***************************************************************************)
PlainMessage(assistant_response) ==
    JsonDumps(ResponseDict(PyStr(assistant_response), PyStr(Chars("none")), PyNone, PyNone))

Extracted(response_data, assistant_response) ==
    JsonDumps(ResponseDict(DictGet(response_data, Chars("message"), PyStr(assistant_response)),
                           DictGet(response_data, Chars("action"), PyStr(Chars("none"))),
                           DictGet(response_data, Chars("query"), PyNone),
                           DictGet(response_data, Chars("handle"), PyNone)))

\* Variant: 'action' read without its default.
RespondNoActionDefault(assistant_response) ==
    LET parsed == JsonLoads(assistant_response)
    IN  IF ~parsed.ok THEN Returned(PlainMessage(assistant_response), "fallback", TRUE)
        ELSE IF parsed.val.t # "dict"
        THEN Raised(NoAttribute(Chars(parsed.val.t), Chars("get")), TRUE)
        ELSE Returned(JsonDumps(ResponseDict(
                        DictGet(parsed.val, Chars("message"), PyStr(assistant_response)),
                        DictGet(parsed.val, Chars("action"), PyNone),
                        DictGet(parsed.val, Chars("query"), PyNone),
                        DictGet(parsed.val, Chars("handle"), PyNone))), "parsed", TRUE)

\* Variant: the inner handler also catches the AttributeError of .get.
RespondCatchesAttributeError(assistant_response) ==
    LET parsed == JsonLoads(assistant_response)
    IN  IF ~parsed.ok \/ parsed.val.t # "dict"
        THEN Returned(PlainMessage(assistant_response), "fallback", TRUE)
        ELSE Returned(Extracted(parsed.val, assistant_response), "parsed", TRUE)

Respond(assistant_response) ==
    LET parsed == JsonLoads(assistant_response)
    IN  IF ~parsed.ok THEN Returned(PlainMessage(assistant_response), "fallback", TRUE)
        ELSE IF parsed.val.t # "dict"
        THEN Raised(NoAttribute(Chars(parsed.val.t), Chars("get")), TRUE)
        ELSE Returned(Extracted(parsed.val, assistant_response), "parsed", TRUE)

(***************************************************************************)
(* Lines 40-93: the body of the outer try.  pipe is what the pipeline call  *)
(* of this request does: [kind |-> "raise", text] or [kind |-> "text",     *)
(* text] (the generated_text of the first returned sequence).              *)
(***************************************************************************)
PredictBody(self, command, audio, pipe) ==
    LET decoded == B64Decode(audio)
        loaded == AudioLoad(decoded.data)
    IN  IF decoded.raised THEN Raised(decoded.text, FALSE)
        ELSE IF loaded.raised THEN Raised(loaded.text, FALSE)
        ELSE IF "pipeline" \notin DOMAIN self
        THEN Raised(NoAttribute(Chars("Predictor"), Chars("pipeline")), FALSE)
        ELSE IF pipe.kind = "raise" THEN Raised(pipe.text, TRUE)
        ELSE Respond(AssistantResponse(pipe.text))

\* Lines 42-58: the pipeline is called only when the audio decodes and loads
\* and self.pipeline exists.
ReachesPipeline(self, audio) ==
    /\ ~B64Decode(audio).raised
    /\ ~AudioLoad(B64Decode(audio).data).raised
    /\ "pipeline" \in DOMAIN self

\* What a predict call leaves behind: the predictor object, the returned
\* string (or the propagated exception), and how it got there.
CallOutcome(self, body) ==
    [self |-> self,
     kind |-> "return",
     text |-> IF body.raised THEN ErrorPayload(body.text) ELSE body.text,
     path |-> body.path,
     exc |-> IF body.raised THEN body.text ELSE <<>>,
     invoked |-> body.invoked]

(***************************************************************************)
(* The predictor object and what setup stores on it (lines 12-32).         *)
(***************************************************************************)
MODEL == "fixie-ai/ultravox-v0_5-llama-3_1-8b"

TokenizerHandle == [kind |-> "tokenizer", model |-> MODEL]

PipelineHandle == [kind |-> "pipeline", model |-> MODEL, tokenizer |-> TokenizerHandle]

NewPredictor == [a \in {} |-> TokenizerHandle]

SetUpPredictor ==
    [a \in {"tokenizer", "pipeline"} |-> IF a = "tokenizer" THEN TokenizerHandle ELSE PipelineHandle]

SetAttr(self, a, v) == [b \in DOMAIN self \cup {a} |-> IF b = a THEN v ELSE self[b]]

(***************************************************************************)
(* Lines 34-96: predict.  shop_domain is received and never read.          *)
(***************************************************************************)
\* Variant: a response held back on the predictor is served to the next call.
PredictCallStaleOnce(self, command, audio, shop_domain, pipe) ==
    LET body == PredictBody(self, command, audio, pipe)
        fresh == CallOutcome(self, body)
    IN  IF "held" \in DOMAIN self
        THEN [fresh EXCEPT !.text = self["held"],
                           !.self = [a \in DOMAIN self \ {"held"} |-> self[a]]]
        ELSE [fresh EXCEPT !.self = SetAttr(self, "held", fresh.text)]

\* Variant: predict marks the predictor as used.
PredictCallMarksUsed(self, command, audio, shop_domain, pipe) ==
    CallOutcome(SetAttr(self, "used", TokenizerHandle), PredictBody(self, command, audio, pipe))

\* Variant: predict loads the model itself when setup has not stored it.
PredictCallLazySetup(self, command, audio, shop_domain, pipe) ==
    IF "pipeline" \in DOMAIN self
    THEN CallOutcome(self, PredictBody(self, command, audio, pipe))
    ELSE CallOutcome(SetUpPredictor, PredictBody(SetUpPredictor, command, audio, pipe))

PredictCall(self, command, audio, shop_domain, pipe) ==
    CallOutcome(self, PredictBody(self, command, audio, pipe))

(***************************************************************************)
(* Inputs of the model: requests, and what the pipeline may do.            *)
(***************************************************************************)
Commands == {"find me a red jacket", "show me the sale"}

ShopDomains == {"", "shop.example"}

\* Two decodable clips, malformed base64 (data characters 1 more than a
\* multiple of 4, incorrect padding) and well-formed base64 of no audio.
Audios == {Chars("UklGRg=="), Chars("T2dn!Uw=="), Chars("not-base64!!"),
           Chars("UklGRg"), Chars("AAAA")}

Bodies == {
    Chars("{\"message\": \"Hi\", \"action\": \"search\", \"query\": \"red\"}"),
    Chars("{\"action\": \"collection\", \"handle\": \"shoes\"}"),
    Chars("{ \"message\" : \"Hi\" , \"action\" : \"none\" }"),
    Chars("{\"message\": \"a\\\"b\\\\c\\nd\"}"),
    Chars("{\"message\": \"Hi\", \"message\": \"Yo\"}"),
    Chars("{\"message\": \"Hi\", \"query\": {\"q\": [1, {\"a\": \"b\"}], \"q\": -30}, \"handle\": []}"),
    Chars("{\"message\": null, \"action\": null}"),
    Chars("{\"message\": 5, \"action\": \"buy\"}"),
    Chars("{\"message\": NaN}"),
    Chars("{\"query\": -Infinity}"),
    Chars("{\"message\": \"<|assistant|>\"}"),
    Chars("{}"),
    Chars("I'm not sure what you mean."),
    Chars("Hello\n\"there\""),
    Chars("a<|assistant|"),
    Chars("{\"message\": \"Hi\""),
    Chars("{\"message\": \"Hi\",}"),
    Chars("{\"a\": 1} x"),
    Chars("{'message': 'Hi'}"),
    Chars(""),
    Chars("[1, 2]"),
    Chars("\"ok\""),
    Chars("7"),
    Chars("-0"),
    Chars("true"),
    Chars("null"),
    Chars("NaN"),
    Chars("Infinity") }

RECURSIVE Repeat(_, _)
Repeat(s, n) == IF n = 0 THEN <<>> ELSE s \o Repeat(s, n - 1)

\* An earlier part of the transcript, closed by the assistant marker.
EarlierTurn == Chars("hi") \o AssistantMarker

GenTexts ==
    {Repeat(EarlierTurn, k) \o Repeat(<<" ">>, i) \o b \o Repeat(<<"\n">>, j) :
        k \in 0..MaxMarkers, i \in 0..MaxPad, j \in 0..MaxPad, b \in Bodies}

PipelineErrors == {Chars("CUDA out of memory"), Chars("list index out of range"),
                   Chars("bad key \"generated_text\"\\"), <<>>}

PipelineOutcomes ==
    {[kind |-> "text", text |-> t] : t \in GenTexts}
    \cup {[kind |-> "raise", text |-> e] : e \in PipelineErrors}

NoGen == [kind |-> "none", text |-> <<>>]

NoRequest == [command |-> "", audio |-> <<>>, shop_domain |-> ""]

NoOut == [kind |-> "none", text |-> <<>>, path |-> "none", exc |-> <<>>,
          invoked |-> FALSE, ready |-> FALSE]

(***************************************************************************)
(* Inputs of the runs against a deterministic pipeline.                    *)
(***************************************************************************)
DetAudios == {Chars("UklGRg=="), Chars("T2dn!Uw=="), Chars("not-base64!!")}

DetOutcomes ==
    {o \in PipelineOutcomes :
        o.text \in {EarlierTurn \o Chars("{\"message\": \"Hi\", \"action\": \"search\", \"query\": \"red\"}"),
                    Chars("I'm not sure what you mean."),
                    Chars("CUDA out of memory")}}

ProbeRequests ==
    {[command |-> "find me a red jacket", audio |-> Chars("UklGRg=="), shop_domain |-> ""],
     [command |-> "show me the sale", audio |-> Chars("not-base64!!"),
      shop_domain |-> "shop.example"]}

\* The argument the pipeline is called with for a request (lines 58-63).
PipelineKey(r) ==
    LET loaded == AudioLoad(B64Decode(r.audio).data)
    IN  PipelineInput(loaded.tensor, loaded.sr, r.command)

(***************************************************************************)
(* State.                                                                  *)
(***************************************************************************)
VARIABLES
    setupState,   \* "new", "done" or "failed": how far setup got
    self,         \* the attributes of the predictor object
    pc,           \* "idle", "running" (predict entered) or "returned"
    req,          \* the arguments of the current predict call
    gen,          \* what the pipeline did in the current call
    out,          \* what the current call returned and how
    early,        \* some predict call ran before setup had completed
    probe,        \* deterministic runs: the request whose outputs are compared
    memo,         \* deterministic runs: the pipeline's value on the probe's input
    probeOut,     \* deterministic runs: <<set up?, output>> of the probe's calls
    hist          \* deterministic runs: probe called, other call, probe called again

vars == <<setupState, self, pc, req, gen, out, early, probe, memo, probeOut, hist>>

det == <<probe, memo, probeOut, hist>>

Init ==
    /\ setupState = "new"
    /\ self = NewPredictor
    /\ pc = "idle"
    /\ req = NoRequest
    /\ gen = NoGen
    /\ out = NoOut
    /\ early = FALSE
    /\ probe = NoRequest
    /\ memo = NoGen
    /\ probeOut = {}
    /\ hist = "none"

\* setup: the tokenizer load or the pipeline load may raise, which leaves
\* the attributes assigned so far.
Setup(outcome) ==
    /\ setupState = "new"
    /\ pc # "running"
    /\ self' = CASE outcome = "tokenizer raises" -> self
                 [] outcome = "pipeline raises" -> SetAttr(self, "tokenizer", TokenizerHandle)
                 [] outcome = "ok" -> SetAttr(SetAttr(self, "tokenizer", TokenizerHandle),
                                              "pipeline", PipelineHandle)
    /\ setupState' = IF outcome = "ok" THEN "done" ELSE "failed"
    /\ UNCHANGED <<pc, req, gen, out, early, det>>

\* The harness enters predict with the three arguments bound.
Request(command, audio, shop_domain) ==
    /\ pc # "running"
    /\ pc' = "running"
    /\ req' = [command |-> command, audio |-> audio, shop_domain |-> shop_domain]
    /\ gen' = NoGen
    /\ out' = NoOut
    /\ UNCHANGED <<setupState, self, early, det>>

\* The body of predict up to its return, when the pipeline call does pipe.
Call(pipe) ==
    \E r \in {PredictCall(self, req.command, req.audio, req.shop_domain, pipe)} :
        /\ self' = r.self
        /\ gen' = IF r.invoked THEN pipe ELSE NoGen
        /\ out' = [kind |-> r.kind, text |-> r.text, path |-> r.path, exc |-> r.exc,
                   invoked |-> r.invoked, ready |-> setupState = "done"]
        /\ pc' = "returned"
        /\ early' = (early \/ setupState # "done")
        /\ UNCHANGED <<setupState, req>>

\* predict with the pipeline as configured (do_sample=True): any outcome.
Predict ==
    /\ pc = "running"
    /\ \E pipe \in (IF ReachesPipeline(self, req.audio) THEN PipelineOutcomes ELSE {NoGen}) :
          Call(pipe)
    /\ UNCHANGED det

Next ==
    \/ \E outcome \in {"tokenizer raises", "pipeline raises", "ok"} : Setup(outcome)
    \/ \E c \in Commands, a \in Audios, d \in ShopDomains : Request(c, a, d)
    \/ Predict

Spec == Init /\ [][Next]_vars

(***************************************************************************)
(* Runs against a pipeline that is a function of its argument: its value   *)
(* on the probe's argument is fixed the first time it is called there.     *)
(***************************************************************************)
InitDet ==
    /\ setupState = "new"
    /\ self = NewPredictor
    /\ pc = "idle"
    /\ req = NoRequest
    /\ gen = NoGen
    /\ out = NoOut
    /\ early = FALSE
    /\ probe \in ProbeRequests
    /\ memo = NoGen
    /\ probeOut = {}
    /\ hist = "none"

PredictDet ==
    /\ pc = "running"
    /\ LET reaches == ReachesPipeline(self, req.audio)
           onProbe == reaches /\ PipelineKey(req) = PipelineKey(probe)
           choices == IF ~reaches THEN {NoGen}
                      ELSE IF onProbe /\ memo # NoGen THEN {memo}
                      ELSE DetOutcomes
       IN  \E pipe \in choices :
              /\ Call(pipe)
              /\ memo' = IF onProbe THEN pipe ELSE memo
              /\ probeOut' = IF req = probe
                             THEN probeOut \cup {<<setupState = "done", out'.text>>}
                             ELSE probeOut
              /\ hist' = CASE req = probe /\ setupState = "done" /\ hist = "none" -> "first"
                           [] req # probe /\ hist = "first" -> "between"
                           [] req = probe /\ setupState = "done" /\ hist = "between" -> "second"
                           [] OTHER -> hist
    /\ UNCHANGED probe

NextDet ==
    \/ \E outcome \in {"tokenizer raises", "pipeline raises", "ok"} : Setup(outcome)
    \/ \E c \in Commands, a \in DetAudios, d \in ShopDomains : Request(c, a, d)
    \/ PredictDet

SpecDet == InitDet /\ [][NextDet]_vars

(***************************************************************************)
(* Vocabulary of the properties.  "Valid JSON" is the grammar of RFC 8259. *)
(***************************************************************************)
\* The text after the last occurrence of the assistant marker, trimmed.
AfterLastMarker(text) ==
    LET hits == {i \in 1..Len(text) : MatchAt(text, i, AssistantMarker)}
    IN  IF hits = {} THEN text
        ELSE Slice(text, (CHOOSE i \in hits : \A k \in hits : i >= k) + Len(AssistantMarker),
                   Len(text))

TrailingSegment(text) == Strip(AfterLastMarker(text))

MarkerCount(text) == Cardinality({i \in 1..Len(text) : MatchAt(text, i, AssistantMarker)})

ValidJson(text) == Decode(text, FALSE)

ResponseKeys == {Chars("message"), Chars("action"), Chars("query"), Chars("handle")}

KeySet(d) == {d.keys[i] : i \in 1..Len(d.keys)}

\* text is the JSON object {"message": "Error: <exc>"} and nothing more.
IsErrorPayload(text, exc) ==
    LET r == ValidJson(text)
    IN  /\ r.ok
        /\ r.val.t = "dict"
        /\ r.val.keys = <<Chars("message")>>
        /\ r.val.kids[1] = PyStr(Chars("Error: ") \o exc)
        /\ StartsWith(r.val.kids[1].s, Chars("Error: "))

\* text is a JSON object with exactly the four response keys and these values.
IsResponse(text, message, action, query, handle) ==
    LET r == ValidJson(text)
    IN  /\ r.ok
        /\ r.val.t = "dict"
        /\ Len(r.val.keys) = 4
        /\ KeySet(r.val) = ResponseKeys
        /\ DictGet(r.val, Chars("message"), PyNone) = message
        /\ DictGet(r.val, Chars("action"), PyNone) = action
        /\ DictGet(r.val, Chars("query"), PyStr(<<>>)) = query
        /\ DictGet(r.val, Chars("handle"), PyStr(<<>>)) = handle

Answered == pc = "returned" /\ gen.kind = "text"

(***************************************************************************)
(* C1: every predict call returns a string that is valid JSON, an object   *)
(* with a "message" key, and never propagates an exception.                *)
(***************************************************************************)
C1_AlwaysValidJsonWithMessage ==
    pc = "returned" =>
        /\ out.kind = "return"
        /\ ValidJson(out.text).ok
        /\ ValidJson(out.text).val.t = "dict"
        /\ HasKey(ValidJson(out.text).val, Chars("message"))

(***************************************************************************)
(* C2: when an exception reaches the catch-all, the returned JSON object   *)
(* has exactly one key, "message", whose value is "Error: " followed by    *)
(* the exception's text.                                                   *)
(***************************************************************************)
C2_ErrorPathMessageOnly ==
    (pc = "returned" /\ out.path = "error") =>
        (out.kind = "return" /\ IsErrorPayload(out.text, out.exc))

C2_Witness ==
    pc = "returned" /\ out.path = "error" /\ out.exc = Chars("Incorrect padding")

C4_NonJsonSegmentIsPlainMessage ==
    (Answered /\ ~ValidJson(TrailingSegment(gen.text)).ok) =>
        /\ out.path # "error"
        /\ IsResponse(out.text, PyStr(TrailingSegment(gen.text)), PyStr(Chars("none")),
                      PyNone, PyNone)

(***************************************************************************)
(* C5: in every response that carries an "action" field, action is one of  *)
(* "search", "collection", "none" and message is a string.                 *)
(***************************************************************************)
C5_ActionIsOneOfThree ==
    (pc = "returned" /\ out.kind = "return" /\ JsonLoads(out.text).ok
       /\ JsonLoads(out.text).val.t = "dict" /\ HasKey(JsonLoads(out.text).val, Chars("action"))) =>
        /\ DictGet(JsonLoads(out.text).val, Chars("action"), PyNone)
              \in {PyStr(Chars("search")), PyStr(Chars("collection")), PyStr(Chars("none"))}
        /\ DictGet(JsonLoads(out.text).val, Chars("message"), PyNone).t = "str"

C7_PredictLeavesPredictorUnchanged ==
    [][(pc = "running" /\ setupState = "done") => self' = self]_vars

C7_Witness ==
    /\ pc = "returned"
    /\ out.ready
    /\ out.path = "fallback"
    /\ self = SetUpPredictor

(***************************************************************************)
(* C8: the candidate answer is the trimmed text after the last occurrence  *)
(* of the assistant marker, the whole trimmed text when the marker does    *)
(* not occur, and it never contains the marker.                            *)
(***************************************************************************)
C8_CandidateIsAfterLastMarker ==
    Answered =>
        /\ AssistantResponse(gen.text) = TrailingSegment(gen.text)
        /\ ~Contains(AssistantResponse(gen.text), AssistantMarker)
        /\ (MarkerCount(gen.text) = 0 => AssistantResponse(gen.text) = Strip(gen.text))
        /\ (out.path = "fallback" =>
               IsResponse(out.text, PyStr(TrailingSegment(gen.text)), PyStr(Chars("none")),
                          PyNone, PyNone))

C8_Witness ==
    /\ Answered
    /\ MarkerCount(gen.text) >= 2
    /\ out.path = "fallback"
    /\ TrailingSegment(gen.text) # <<>>
    /\ Len(TrailingSegment(gen.text)) < Len(AfterLastMarker(gen.text))

(***************************************************************************)
(* C9: when the trailing assistant segment is valid JSON but not an        *)
(* object, the response is the message-only error payload, its message     *)
(* starting with "Error: ", not the plain-message fallback.                *)
(***************************************************************************)
C9_NonObjectJsonIsError ==
    (Answered /\ ValidJson(TrailingSegment(gen.text)).ok
       /\ ValidJson(TrailingSegment(gen.text)).val.t # "dict") =>
        /\ out.path = "error"
        /\ IsErrorPayload(out.text, out.exc)
        /\ out.exc = NoAttribute(Chars(ValidJson(TrailingSegment(gen.text)).val.t), Chars("get"))

C9_Witness ==
    /\ Answered
    /\ TrailingSegment(gen.text) = Chars("[1, 2]")
    /\ out.exc = NoAttribute(Chars("list"), Chars("get"))

(***************************************************************************)
(* C10: a predict call on a predictor whose setup has not completed never  *)
(* invokes the pipeline and does not raise: it returns the message-only    *)
(* error payload; and a later call made after setup completed behaves as   *)
(* if the early call had never happened.                                   *)
(***************************************************************************)
C10_EarlyPredictIsHarmless ==
    /\ (pc = "returned" /\ ~out.ready) =>
          /\ out.kind = "return"
          /\ ~out.invoked
          /\ gen = NoGen
          /\ out.path = "error"
          /\ IsErrorPayload(out.text, out.exc)
    /\ (early /\ setupState = "done") => self = SetUpPredictor
    /\ (early /\ pc = "returned" /\ out.ready) =>
          out.text = PredictCall(SetUpPredictor, req.command, req.audio, req.shop_domain, gen).text

C10_Witness ==
    early /\ pc = "returned" /\ out.ready /\ out.path = "parsed"

====
